---- MODULE Spec2Model ----
(***************************************************************************)
(* Model of backend/access.py: the chat access key check.                  *)
(*                                                                         *)
(* Python values are pairs <<tag, payload>>.  A str is <<"str", chars>>    *)
(* with chars a sequence of one-character strings, None is PyNone, and a   *)
(* parsed JSON document is the value json.loads returns for it.  A file is *)
(* Absent or <<"file", doc>> where doc is the parse of its text, or        *)
(* InvalidDoc when the text is not JSON.                                   *)
(*                                                                         *)
(* validate_access_key runs in request threads.  Each thread steps         *)
(* through the accesses to shared state in program order: the lru_cache    *)
(* lookup, os.getenv, Path.exists, Path.read_text, and the lru_cache       *)
(* store on return.  The environment (operator, other processes) changes   *)
(* the environment variable and the files between any two steps.           *)
(***************************************************************************)
EXTENDS Integers, Sequences, FiniteSets, TLC

\* ---------------------------------------------------------------- bounds
MaxCalls == 2
MaxChanges == 1

\* every call of validate_access_key runs in a request thread of its own
Threads == 1..MaxCalls

\* ---------------------------------------------------------------- values
PyNone == <<"none", <<>>>>
Str(chars) == <<"str", chars>>
Num(digits) == <<"num", digits>>
PyTrue == <<"bool", <<"true">>>>
Arr(elems) == <<"arr", elems>>
Obj(fields) == <<"obj", fields>>

\* bool(v) of Python, for the values above
Truthy(v) ==
    CASE v[1] = "none" -> FALSE
      [] v[1] = "str"  -> Len(v[2]) > 0
      [] v[1] = "num"  -> v[2] # <<"0">>
      [] v[1] = "bool" -> v[2] = <<"true">>
      [] v[1] = "arr"  -> Len(v[2]) > 0
      [] v[1] = "obj"  -> Len(v[2]) > 0

\* dict.get(name): the value of the field, None when there is none
DictGet(fields, name) ==
    IF \E i \in 1..Len(fields) : fields[i][1] = name
    THEN fields[CHOOSE i \in 1..Len(fields) : fields[i][1] = name][2]
    ELSE PyNone

\* ---------------------------------------------------------------- outcomes
Ret(v) == <<"ret", v>>
HTTP(status, detail) == <<"http", status, detail>>
Exc(name) == <<"exc", name>>

HTTP_403_FORBIDDEN == 403
HTTP_500_INTERNAL_SERVER_ERROR == 500

MissingKey == HTTP(HTTP_403_FORBIDDEN, "Missing access key.")
InvalidKey == HTTP(HTTP_403_FORBIDDEN, "Invalid access key.")
FileNotFound == HTTP(HTTP_500_INTERNAL_SERVER_ERROR, "Access key file not found on the server.")
InvalidJSON == HTTP(HTTP_500_INTERNAL_SERVER_ERROR, "Invalid access key JSON configuration.")
KeyMissing == HTTP(HTTP_500_INTERNAL_SERVER_ERROR, "Access key missing in configuration.")
Success == Ret(PyNone)

\* ---------------------------------------------------------------- inputs
ab == <<"a", "b">>
AB == <<"A", "B">>

ProvidedKeys == {PyNone, Str(<<>>), Str(ab), Str(AB)}

KeyValues == {Str(<<>>), Str(ab), Num(<<"5">>)}

Absent == <<"absent">>
InvalidDoc == <<"invalid", <<>>>>
File(doc) == <<"file", doc>>

Docs == {InvalidDoc, Arr(<<>>), Obj(<<>>)}
          \cup {Obj(<<<<"access_key", v>>>>) : v \in KeyValues}

Contents == {Absent} \cup {File(d) : d \in Docs}

\* the file at the override path is a key file that stays as it is
AltContents == {File(Obj(<<<<"access_key", Str(AB)>>>>))}

DefaultPath == <<"access_key.json">>
AltPath == <<"alt.json">>
Paths == {DefaultPath, AltPath}

EnvValues == {PyNone, Str(<<>>), Str(AltPath)}

ContentsAt(p) == IF p = DefaultPath THEN Contents ELSE AltContents


\* ---------------------------------------------------------------- the code
\* variant: the override is ignored
GetAccessKeyPathDefault(configured) == DefaultPath

\* _get_access_key_path: the override when os.getenv gives a truthy value
GetAccessKeyPath(configured) ==
    IF Truthy(configured) THEN configured[2] ELSE DefaultPath

\* variant: "if key is None" in place of "if not key"
ParseAccessKeyNoneCheck(content) ==
    IF content = Absent THEN Exc("FileNotFoundError")
    ELSE LET data == content[2] IN
         IF data = InvalidDoc THEN InvalidJSON
         ELSE IF data[1] # "obj" THEN Exc("AttributeError")
         ELSE LET key == DictGet(data[2], "access_key") IN
              IF key = PyNone THEN KeyMissing ELSE Ret(key)

\* variant: a str key is returned short of its last character
ParseAccessKeyPartial(content) ==
    IF content = Absent THEN Exc("FileNotFoundError")
    ELSE LET data == content[2] IN
         IF data = InvalidDoc THEN InvalidJSON
         ELSE IF data[1] # "obj" THEN Exc("AttributeError")
         ELSE LET key == DictGet(data[2], "access_key") IN
              IF ~Truthy(key) THEN KeyMissing
              ELSE IF key[1] = "str"
              THEN Ret(Str(SubSeq(key[2], 1, Len(key[2]) - 1)))
              ELSE Ret(key)

\* _load_access_key after path.exists(): read_text, json.loads, data.get
\* and the check of the key, as the outcome of the call for the content read
ParseAccessKey(content) ==
    IF content = Absent THEN Exc("FileNotFoundError")
    ELSE LET data == content[2] IN
         IF data = InvalidDoc THEN InvalidJSON
         ELSE IF data[1] # "obj" THEN Exc("AttributeError")
         ELSE LET key == DictGet(data[2], "access_key") IN
              IF ~Truthy(key) THEN KeyMissing ELSE Ret(key)

\* variant: a load that raised leaves its caller waiting
AfterReadWait(outcome) ==
    IF outcome[1] = "ret" THEN "return" ELSE "wait"

\* where a call goes on after the read: to the return of the key, or out of
\* validate_access_key with the exception raised
AfterRead(outcome) ==
    IF outcome[1] = "ret" THEN "return" ELSE "done"

\* lru_cache(maxsize=1) around a function without arguments: one slot
Empty == <<"empty">>

\* variant: the cache is never consulted
CacheLookupMiss(slot) == Empty

\* the wrapper before the call: the stored result, Empty on a miss
CacheLookup(slot) == slot

\* variant: exceptions are stored like results
MemoizeAll(slot, outcome) ==
    IF slot = Empty THEN outcome ELSE slot

\* variant: a result that finds the slot filled evicts what it holds
MemoizeEvict(slot, outcome) ==
    IF outcome[1] # "ret" THEN slot
    ELSE IF slot = Empty THEN outcome ELSE Empty

\* variant: every result is stored, the last one wins
MemoizeOverwrite(slot, outcome) ==
    IF outcome[1] = "ret" THEN outcome ELSE slot

\* the wrapper after the call: a result is stored unless the slot was filled
\* during the call; an exception passes through and nothing is stored
Memoize(slot, outcome) ==
    IF outcome[1] = "ret" /\ slot = Empty THEN outcome ELSE slot

LowerChar(c) == CASE c = "A" -> "a" [] c = "B" -> "b" [] OTHER -> c
Lower(v) == IF v[1] = "str"
            THEN Str([i \in 1..Len(v[2]) |-> LowerChar(v[2][i])]) ELSE v

\* variant: the comparison ignores case
PyNeNoCase(a, b) == Lower(a) # Lower(b)

\* provided_key != expected_key
PyNe(a, b) == a # b

\* variant: "if provided_key is None" in place of "if not provided_key"
IsMissingNoneOnly(provided_key) == provided_key = PyNone

\* if not provided_key
IsMissing(provided_key) == ~Truthy(provided_key)

\* validate_access_key after the load returned expected_key
Compare(provided_key, expected_key) ==
    IF PyNe(provided_key, expected_key) THEN InvalidKey ELSE Success

\* ---------------------------------------------------------------- state
VARIABLES
    env,        \* value of os.getenv("CHAT_ACCESS_KEY_PATH")
    fs,         \* content of each path
    cache,      \* the lru_cache slot of _load_access_key
    th,         \* the request threads
    loadLog,    \* history: keys returned by _load_access_key, in order
    everKeys,   \* history: truthy access_key values a file has held
    failed,     \* history: a call has ended in a configuration error
    changes     \* history: changes of env and fs

vars == <<env, fs, cache, th, loadLog, everKeys, failed, changes>>

Unset == <<"unset">>

\* the truthy access_key value of a content, as a set
KeysOf(content) ==
    IF content # Absent /\ content[2][1] = "obj"
       /\ Truthy(DictGet(content[2][2], "access_key"))
    THEN {DictGet(content[2][2], "access_key")} ELSE {}


Idle == [pc |-> "idle", provided_key |-> PyNone, hit |-> FALSE,
         path |-> Unset, reads |-> 0, obs |-> Unset, key |-> Unset,
         expected_key |-> Unset, result |-> Unset,
         seen |-> [loaded |-> FALSE, failed |-> FALSE, stale |-> FALSE]]

\* a call that starts now; seen is history: whether a load had returned and
\* whether a call had failed on the configuration before this call started,
\* and whether the configured file then held something else than that load
Start(k) ==
    [Idle EXCEPT !.provided_key = k,
                 !.seen = IF Truthy(k)
                          THEN [loaded |-> loadLog # <<>>,
                                failed |-> failed,
                                stale |-> /\ loadLog # <<>>
                                          /\ KeysOf(fs[GetAccessKeyPath(env)])
                                               # {loadLog[1]}]
                          ELSE @]

IsConfigError(outcome) ==
    outcome[1] = "http" /\ outcome[2] = HTTP_500_INTERNAL_SERVER_ERROR

Init ==
    /\ env \in EnvValues
    /\ fs \in [Paths -> Contents \cup AltContents]
    /\ \A p \in Paths : fs[p] \in ContentsAt(p)
    /\ cache = Empty
    /\ th = [t \in Threads |-> Idle]
    /\ loadLog = <<>>
    /\ everKeys = UNION {KeysOf(fs[p]) : p \in Paths}
    /\ failed = FALSE
    /\ changes = 0

\* validate_access_key(provided_key) up to the lookup in the cache.  The
\* threads are interchangeable: they start in the order of their numbers.
Call(t, k) ==
    /\ th[t].pc = "idle"
    /\ \A u \in Threads : u < t => th[u].pc # "idle"
    /\ LET slot == CacheLookup(cache) IN
       th' = [th EXCEPT ![t] =
         IF IsMissing(k)
         THEN [Start(k) EXCEPT !.pc = "done", !.result = MissingKey]
         ELSE IF slot = Empty
         THEN [Start(k) EXCEPT !.pc = "resolve"]
         ELSE IF slot[1] = "ret"
         THEN [Start(k) EXCEPT !.pc = "done", !.hit = TRUE,
                               !.expected_key = slot[2],
                               !.result = Compare(k, slot[2])]
         ELSE [Start(k) EXCEPT !.pc = "done", !.hit = TRUE,
                               !.result = slot]]
    /\ UNCHANGED <<env, fs, cache, loadLog, everKeys, failed, changes>>

\* path = _get_access_key_path()
Resolve(t) ==
    /\ th[t].pc = "resolve"
    /\ th' = [th EXCEPT ![t].pc = "exists",
                        ![t].path = GetAccessKeyPath(env)]
    /\ UNCHANGED <<env, fs, cache, loadLog, everKeys, failed, changes>>

\* if not path.exists(): raise 500
Exists(t) ==
    /\ th[t].pc = "exists"
    /\ LET content == fs[th[t].path] IN
       IF content = Absent
       THEN /\ th' = [th EXCEPT ![t].reads = @ + 1,
                                ![t].obs = content,
                                ![t].result = FileNotFound,
                                ![t].pc = "done"]
            /\ cache' = Memoize(cache, FileNotFound)
            /\ failed' = TRUE
       ELSE /\ th' = [th EXCEPT ![t].reads = @ + 1,
                                ![t].obs = content,
                                ![t].pc = "read"]
            /\ UNCHANGED <<cache, failed>>
    /\ UNCHANGED <<env, fs, loadLog, everKeys, changes>>

\* path.read_text() and the rest of _load_access_key up to its return
ReadFile(t) ==
    /\ th[t].pc = "read"
    /\ LET content == fs[th[t].path]
           outcome == ParseAccessKey(content)
       IN IF outcome[1] = "ret"
          THEN /\ th' = [th EXCEPT ![t].reads = @ + 1,
                                   ![t].obs = content,
                                   ![t].key = outcome[2],
                                   ![t].pc = AfterRead(outcome)]
               /\ UNCHANGED <<cache, failed>>
          ELSE /\ th' = [th EXCEPT ![t].reads = @ + 1,
                                   ![t].obs = content,
                                   ![t].result = outcome,
                                   ![t].pc = AfterRead(outcome)]
               /\ cache' = Memoize(cache, outcome)
               /\ failed' = (failed \/ IsConfigError(outcome))
    /\ UNCHANGED <<env, fs, loadLog, everKeys, changes>>

\* return key, through the lru_cache wrapper, and the comparison
Return(t) ==
    /\ th[t].pc = "return"
    /\ cache' = Memoize(cache, Ret(th[t].key))
    /\ loadLog' = Append(loadLog, th[t].key)
    /\ th' = [th EXCEPT ![t].expected_key = th[t].key,
                        ![t].result = Compare(th[t].provided_key, th[t].key),
                        ![t].key = Unset,
                        ![t].pc = "done"]
    /\ UNCHANGED <<env, fs, everKeys, failed, changes>>

\* the operator sets, empties or unsets CHAT_ACCESS_KEY_PATH
SetEnv(e) ==
    /\ changes < MaxChanges
    /\ e # env
    /\ env' = e
    /\ changes' = changes + 1
    /\ UNCHANGED <<fs, cache, th, loadLog, everKeys, failed>>

\* the operator writes, replaces or deletes a file
WriteFile(p, c) ==
    /\ changes < MaxChanges
    /\ c # fs[p]
    /\ fs' = [fs EXCEPT ![p] = c]
    /\ everKeys' = everKeys \cup KeysOf(c)
    /\ changes' = changes + 1
    /\ UNCHANGED <<env, cache, th, loadLog, failed>>

Next ==
    \/ \E t \in Threads, k \in ProvidedKeys : Call(t, k)
    \/ \E t \in Threads : Resolve(t)
    \/ \E t \in Threads : Exists(t)
    \/ \E t \in Threads : ReadFile(t)
    \/ \E t \in Threads : Return(t)
    \/ \E e \in EnvValues : SetEnv(e)
    \/ \E p \in Paths : \E c \in ContentsAt(p) : WriteFile(p, c)

Spec == Init /\ [][Next]_vars

\* a request thread that can take a step is scheduled in the end; nothing
\* obliges a client to call or the operator to change anything
Step(t) == Resolve(t) \/ Exists(t) \/ ReadFile(t) \/ Return(t)

FairSpec == Spec /\ \A t \in Threads : WF_vars(Step(t))

TypeOK ==
    /\ env \in EnvValues
    /\ fs \in [Paths -> Contents \cup AltContents]
    /\ changes \in 0..MaxChanges


\* ---------------------------------------------------------------- properties
Done(t) == th[t].pc = "done"
KeyFile(v) == File(Obj(<<<<"access_key", v>>>>))
ConfiguredFile == fs[GetAccessKeyPath(env)]

\* C1: a call with a non-empty key whose load yielded secret s, loaded or
\* cached, succeeds exactly when the key equals s, and fails with the 403
\* "Invalid access key." otherwise.
C1_ExactMatch ==
    \A t \in Threads :
        (Done(t) /\ th[t].expected_key # Unset) =>
            /\ th[t].provided_key \notin {PyNone, Str(<<>>)}
            /\ (th[t].result = Success)
                   <=> (th[t].provided_key = th[t].expected_key)
            /\ (th[t].provided_key # th[t].expected_key)
                   => th[t].result = <<"http", 403, "Invalid access key.">>

\* one call succeeded with "ab" and one with "AB" failed against "ab"
C1_Witness ==
    \E t, u \in Threads :
        /\ Done(t) /\ th[t].expected_key = Str(ab)
        /\ th[t].provided_key = Str(ab) /\ th[t].result = Success
        /\ Done(u) /\ th[u].expected_key = Str(ab)
        /\ th[u].provided_key = Str(AB) /\ th[u].result = InvalidKey

\* C2: a call with None or "" fails with the 403 "Missing access key." in
\* every state of file, environment and cache; the message differs from the
\* one of an invalid key and the status is the same.
C2_MissingKey ==
    /\ \A t \in Threads :
           (Done(t) /\ th[t].provided_key \in {PyNone, Str(<<>>)}) =>
               th[t].result = <<"http", 403, "Missing access key.">>
    /\ MissingKey[2] = InvalidKey[2]
    /\ MissingKey[3] # InvalidKey[3]

\* "" was refused as missing although there is no key file and no cache
C2_Witness ==
    \E t \in Threads :
        /\ Done(t) /\ th[t].provided_key = Str(<<>>)
        /\ th[t].result = MissingKey
        /\ changes = 0 /\ cache = Empty /\ ConfiguredFile = Absent

\* C3: a load on an empty cache for a non-empty key fails with a 500 before
\* any comparison: "not found" when the path does not exist, "invalid JSON"
\* when the file does not parse, "key missing" when the object has no
\* access_key or a falsy one.
C3_LoadErrors ==
    \A t \in Threads :
        (Done(t) /\ ~th[t].hit /\ th[t].reads > 0) =>
            /\ (th[t].reads = 1) =>
                   /\ th[t].obs = Absent
                   /\ th[t].result =
                        <<"http", 500, "Access key file not found on the server.">>
            /\ (th[t].reads = 2 /\ th[t].obs = File(InvalidDoc)) =>
                   th[t].result =
                        <<"http", 500, "Invalid access key JSON configuration.">>
            /\ (th[t].reads = 2
                  /\ th[t].obs \in {File(Obj(<<>>)), KeyFile(Str(<<>>))}) =>
                   th[t].result =
                        <<"http", 500, "Access key missing in configuration.">>
            /\ (th[t].reads = 1
                  \/ th[t].obs \in {File(InvalidDoc), File(Obj(<<>>)),
                                    KeyFile(Str(<<>>))}) =>
                   th[t].expected_key = Unset

\* one call found {"access_key": ""} and one found no file
C3_Witness ==
    \E t, u \in Threads :
        /\ Done(t) /\ th[t].obs = KeyFile(Str(<<>>))
        /\ th[t].result = KeyMissing
        /\ Done(u) /\ th[u].obs = Absent /\ th[u].reads = 1
        /\ th[u].result = FileNotFound

\* C4: a failed load is not cached: while no load has returned the cache is
\* empty, a call that starts then performs the whole load, and when it finds
\* a file with access_key s it succeeds for s, also after failed calls.
C4_FailuresNotCached ==
    /\ (loadLog = <<>>) => cache = Empty
    /\ \A t \in Threads :
           (Done(t) /\ th[t].provided_key \notin {PyNone, Str(<<>>)}
              /\ ~th[t].seen.loaded) =>
               /\ ~th[t].hit
               /\ th[t].reads > 0
               /\ \A v \in KeyValues \ {Str(<<>>)} :
                      (th[t].obs = KeyFile(v) /\ th[t].provided_key = v) =>
                          th[t].result = Success

\* a call failed on the configuration, the file was fixed, and the next call
\* read it and succeeded
C4_Witness ==
    \E t \in Threads :
        /\ Done(t) /\ th[t].seen.failed /\ ~th[t].seen.loaded
        /\ changes > 0
        /\ th[t].reads = 2 /\ th[t].result = Success

\* C5: a call that starts after a load has returned is answered from the
\* cache of that load without any access to the file system, whatever the
\* file holds by then.
C5_ServedFromCache ==
    \A t \in Threads :
        (Done(t) /\ th[t].seen.loaded) =>
            /\ th[t].hit
            /\ th[t].reads = 0
            /\ th[t].expected_key = loadLog[1]
            /\ th[t].result = IF th[t].provided_key = loadLog[1]
                              THEN Success ELSE InvalidKey

\* a call succeeded from the cache when the configured file was gone or held
\* something else
C5_Witness ==
    \E t \in Threads :
        /\ Done(t) /\ th[t].hit /\ th[t].seen.stale
        /\ th[t].result = Success

\* C6: once the cache holds a secret, no step changes it
C6_CacheNeverChanges ==
    [][cache # Empty => cache' = cache]_vars

\* two loads returned different keys and the cache holds the first
C6_Witness ==
    /\ Len(loadLog) = 2 /\ loadLog[1] # loadLog[2]
    /\ cache = Ret(loadLog[1])

\* C7 as claimed: whatever the cache holds is a non-empty string
C7_CachedIsString ==
    cache # Empty =>
        /\ cache[1] = "ret"
        /\ cache[2][1] = "str"
        /\ Len(cache[2][2]) > 0

\* C8 as claimed: a call ends in success, a 403 or a 500 and in nothing else
C8_TwoErrorKinds ==
    \A t \in Threads :
        Done(t) =>
            \/ th[t].result = Success
            \/ /\ th[t].result[1] = "http"
               /\ th[t].result[2] \in {403, 500}

\* C9 as claimed: at most one load reads the file successfully
C9_AtMostOneLoad ==
    Len(loadLog) <= 1

\* C9 amended: the cache is written by the first load that returns and by no
\* other, and a call that starts after it reads no file; loads that run
\* while the cache is empty may each read the file.
C9_CacheWrittenOnce ==
    /\ (cache = Empty) <=> (loadLog = <<>>)
    /\ (loadLog # <<>>) => cache = Ret(loadLog[1])
    /\ \A t \in Threads :
           (th[t].pc # "idle" /\ th[t].seen.loaded) => th[t].reads = 0

\* two calls both read the file, and the cache holds what the first returned
C9_Witness ==
    /\ Len(loadLog) = 2
    /\ cache = Ret(loadLog[1])
    /\ \A t \in {1, 2} : Done(t) /\ th[t].reads = 2

\* C10: the cache is empty or holds a whole access_key value that a file has
\* held, and so does every key a call is compared with.
C10_NoPartialValue ==
    /\ cache = Empty \/ (cache[1] = "ret" /\ cache[2] \in everKeys)
    /\ \A t \in Threads :
           th[t].expected_key # Unset => th[t].expected_key \in everKeys

\* a load is about to return while the cache already holds another load's key
C10_Witness ==
    \E t, u \in Threads :
        /\ th[t].pc = "return"
        /\ Done(u) /\ ~th[u].hit /\ th[u].expected_key # Unset
        /\ cache = Ret(th[u].expected_key)

\* C11 as claimed: any two load attempts use the same path
C11_SamePath ==
    \A t, u \in Threads :
        (th[t].path # Unset /\ th[u].path # Unset) => th[t].path = th[u].path

\* C11 amended: every load attempt resolves the path from the value the
\* variable has then: while nothing has changed all attempts use one path,
\* an attempt that finds an override uses the override and one that finds
\* the variable unset or empty uses access_key.json, and a call that starts
\* after a load has returned resolves no path.
C11_PathFollowsEnv ==
    [][/\ (changes' = 0) =>
              \A t, u \in Threads :
                  (th'[t].path # Unset /\ th'[u].path # Unset) =>
                      th'[t].path = th'[u].path
       /\ \A t \in Threads :
              (th[t].path = Unset /\ th'[t].path # Unset) =>
                  /\ ~th'[t].seen.loaded
                  /\ env \notin {PyNone, Str(<<>>)} => th'[t].path = env[2]
                  /\ env \in {PyNone, Str(<<>>)} => th'[t].path = DefaultPath]_vars

\* a load failed on the default path, the variable was set, and the next
\* load used the override
C11_Witness ==
    \E t, u \in Threads :
        /\ Done(t) /\ th[t].path = DefaultPath /\ th[t].result = FileNotFound
        /\ th[u].seen.failed /\ th[u].path = AltPath

\* C12: the resolution gives the value of the variable when it is set and
\* not empty and access_key.json otherwise, whether or not a file is there,
\* and changes nothing but the position of the call.
C12_ResolvePath ==
    [][\A t \in Threads :
          (th[t].pc = "resolve" /\ th'[t].pc # "resolve") =>
              /\ th'[t].path = IF env \in {PyNone, Str(<<>>)}
                               THEN <<"access_key.json">> ELSE env[2]
              /\ th'[t].pc = "exists"
              /\ th'[t].reads = 0 /\ th'[t].result = Unset
              /\ env' = env /\ fs' = fs /\ cache' = cache
              /\ \A u \in Threads \ {t} : th'[u] = th[u]]_vars

\* one call resolved the override, the variable was then set to "" and the
\* next call resolved the default, where there is no file
C12_Witness ==
    \E t, u \in Threads :
        /\ th[t].path = AltPath
        /\ changes = 1 /\ env = Str(<<>>)
        /\ th[u].path = DefaultPath
        /\ th[u].pc = "exists" /\ fs[DefaultPath] = Absent

\* C13: under fair scheduling of the request threads, every call that has
\* started ends, with a success or a failure.
C13_EveryCallEnds ==
    \A t \in Threads : (th[t].pc # "idle") ~> (th[t].pc = "done")

\* a call that started after a failed load, and loaded on its own, has ended
\* and so has another one
C13_Witness ==
    \E t, u \in Threads :
        /\ t # u /\ Done(t) /\ Done(u)
        /\ th[u].seen.failed /\ ~th[u].hit /\ th[u].reads > 0

\* C14 as claimed: every call that reaches the comparison compares with the
\* secret the cache holds, so any two of them compare with the same secret.
C14_SameSecret ==
    \A t \in Threads :
        th[t].expected_key # Unset => cache = Ret(th[t].expected_key)

\* C15: a call with None or "" ends at once without a load: the cache stays
\* as it is, no path is resolved and no file is read; and no step of any
\* call changes the files or the environment.
C15_NoLoadNoEffect ==
    [][/\ \A t \in Threads :
              (th[t].pc = "idle" /\ th'[t].pc # "idle"
                 /\ th'[t].provided_key \in {PyNone, Str(<<>>)}) =>
                  /\ th'[t].pc = "done"
                  /\ th'[t].path = Unset
                  /\ th'[t].reads = 0 /\ th'[t].obs = Unset
                  /\ cache' = cache /\ loadLog' = loadLog
       /\ (th' # th) => (fs' = fs /\ env' = env)]_vars

\* "" was refused although the cache is empty and the configured file holds
\* a key, and a call with a key has loaded nothing yet
C15_Witness ==
    \E t, u \in Threads :
        /\ Done(t) /\ th[t].provided_key = Str(<<>>)
        /\ th[t].result = MissingKey /\ th[t].reads = 0
        /\ cache = Empty /\ ConfiguredFile = KeyFile(Str(ab))
        /\ th[u].pc = "resolve"

====
